---- MODULE Spec2Model ----
(***************************************************************************)
(* Model of server.js: an express application over one MySQL table,       *)
(* `users`.  Every request is served by an async handler; between two     *)
(* awaits a handler runs without interruption, and each pool.execute is   *)
(* one auto-committed statement.  A request in flight is a process whose  *)
(* position (pc) is the await it is parked on.                            *)
(*                                                                         *)
(* Strings that the code takes apart (e-mails, passwords, credentials)    *)
(* are sequences of characters; the other strings are TLA+ strings.       *)
(***************************************************************************)
EXTENDS Integers, Sequences, FiniteSets, TLC

\* ---------------------------------------------------------------- bounds

\* Requests the server receives in a run; they are served in any
\* interleaving of their awaits, one process per request.
MaxRequests == 2

Procs == 1..MaxRequests

\* ------------------------------------------------------------- constants

\* body('password').isLength({ min: 6 })
MinPasswordLength == 6

\* const saltRounds = 10
saltRounds == 10

\* ---------------------------------------------------------------- inputs

E1 == <<"a", "@", "x">>
E2 == <<"b", "@", "x">>
BadEmail == <<"a", "x">>
Empty == <<>>

\* A password without a colon, one with colons, one that is too short.
P1 == <<"s", "e", "c", "r", "e", "t">>
P2 == <<"p", "w", ":", "1", ":", "2">>
PShort == <<"p", "w">>

Emails == {E1, E2}
Passwords == {P1, P2}

\* Values Math.random()/Date.now() may give generateCompanyId.
CompanyIds == {"CMP-1", "CMP-2"}

\* ------------------------------------------------------------ the schema

Columns ==
    {"id", "first_name", "last_name", "email", "password", "type", "company_id",
     "subscription", "lang", "plan", "avatar", "created_by", "is_active",
     "is_login_enable", "dark_mode", "messenger_color", "is_disable",
     "last_login", "created_at", "updated_at"}

\* ------------------------------------------------------- pure functions

\* bcrypt.hash(password, saltRounds): a digest that embeds the cost and from
\* which bcrypt.compare recognises the plaintext (the salt is abstracted).
Hash(plain) == <<"$2a$", saltRounds>> \o plain

\* bcrypt.compare(password, user.password)
Compare(plain, digest) == digest = Hash(plain)

\* Index of the first sep in s, 0 when there is none.
RECURSIVE IndexOf(_, _, _)
IndexOf(s, sep, i) ==
    IF i > Len(s) THEN 0
    ELSE IF s[i] = sep THEN i
    ELSE IndexOf(s, sep, i + 1)

\* String.prototype.split(sep): all the segments between separators.
RECURSIVE Split(_, _)
Split(s, sep) ==
    LET i == IndexOf(s, sep, 1)
    IN  IF i = 0 THEN <<s>>
        ELSE <<SubSeq(s, 1, i - 1)>> \o Split(SubSeq(s, i + 1, Len(s)), sep)

\* const [email, password] = credentials.split(':'): the first two segments;
\* a missing one is undefined, which the code only tests with `!`, as it
\* does the empty string.
DecodeCredentials(credentials) ==
    LET parts == Split(credentials, ":")
    IN  [email |-> parts[1],
         password |-> IF Len(parts) >= 2 THEN parts[2] ELSE Empty]

\* express-validator isEmail, reduced to: one "@" with text on both sides.
IsEmail(s) ==
    LET i == IndexOf(s, "@", 1)
    IN  /\ i > 1
        /\ i < Len(s)
        /\ IndexOf(SubSeq(s, i + 1, Len(s)), "@", 1) = 0

\* const planMap = { 'Basic': 0, 'Silver': 1, 'Premium': 2, 'Enterprise': 3 }
Subscriptions == {"Basic", "Silver", "Premium", "Enterprise"}
planMap ==
    [s \in Subscriptions |->
        CASE s = "Basic" -> 0
          [] s = "Silver" -> 1
          [] s = "Premium" -> 2
          [] s = "Enterprise" -> 3]

\* const userData = { ...row }; delete userData.password
StripPasswordKeep(row) == row
StripPassword(row) == [c \in (DOMAIN row) \ {"password"} |-> row[c]]

\* SELECT ... WHERE email = ?  /  WHERE id = ?
SelectByEmail(table, email) == SelectSeq(table, LAMBDA r : r.email = email)
SelectById(table, id) == SelectSeq(table, LAMBDA r : r.id = id)

\* -------------------------------------------------------------- responses

Resp(status, message, data) ==
    [status |-> status, message |-> message, data |-> data]

NoResp == Resp(0, "", <<>>)

WithUser(row) == <<StripPassword(row)>>

\* ------------------------------------------------------ request inputs

\* The JSON object with the given (key, value) pairs.
Fn(pairs) ==
    [k \in {q[1] : q \in pairs} |-> (CHOOSE q \in pairs : q[1] = k)[2]]

RegisterBody(email, password, type, first_name) ==
    [first_name |-> first_name, last_name |-> "Lee", email |-> email,
     password |-> password, type |-> type]

RegisterBodies ==
    {RegisterBody(E1, P1, "employee", "Ann"), RegisterBody(E1, P2, "company", "Ann"),
     RegisterBody(E2, P1, "company", "Ann"), RegisterBody(E2, P2, "employee", "Ann")}
    \cup {RegisterBody(BadEmail, P1, "employee", "Ann"),
          RegisterBody(E2, PShort, "employee", "Ann"),
          RegisterBody(E2, P1, "guest", "Ann"),
          RegisterBody(E2, P1, "admin", "")}

LoginBody(email, password) == [email |-> email, password |-> password]

LoginBodies ==
    {LoginBody(e, p) : e \in Emails, p \in Passwords}
    \cup {LoginBody(BadEmail, P1), LoginBody(E1, Empty)}

NoHeader == <<>>
Basic(credentials) == <<[scheme |-> "Basic", credentials |-> credentials]>>

\* The Authorization headers tried: absent, another scheme, and Basic over
\* base64(credentials); the header carries the decoded characters.
BasicHeaders == {Basic(e \o <<":">> \o p) : e \in Emails, p \in Passwords}
Headers ==
    {NoHeader, <<[scheme |-> "Bearer", credentials |-> E1]>>}
    \cup BasicHeaders
    \cup {Basic(E1), Basic(E1 \o <<":">>), Basic(<<":">> \o P1)}

\* The PUT /api/profile bodies tried: none, one key, and two keys.
UpdateBodies ==
    {Fn({}),
     Fn({<<"first_name", "Bob">>}), Fn({<<"first_name", "">>}),
     Fn({<<"subscription", "Silver">>}), Fn({<<"subscription", "Gold">>}),
     Fn({<<"plan", 3>>}),
     Fn({<<"is_active", 0>>}), Fn({<<"is_login_enable", 0>>}),
     Fn({<<"email", E2>>}),
     Fn({<<"type", "company">>}),
     Fn({<<"last_login", "t_inj">>}),
     Fn({<<"password", Hash(P2)>>}),
     Fn({<<"nickname", "x">>}),
     Fn({<<"password", Hash(P2)>>, <<"first_name", "Bob">>}),
     Fn({<<"subscription", "Enterprise">>, <<"plan", 0>>}),
     Fn({<<"is_active", 0>>, <<"last_login", "t_inj">>})}

GateRoutes == {"profile", "update", "logout"}

\* ------------------------------------------------------------------ state

VARIABLES
    users,   \* the users table, in insertion order
    pc,      \* per request: the await it is parked on
    req,     \* per request: route, Authorization header, body
    user,    \* per request: the row the handler or the gate loaded
    insertId, \* per request: result.insertId of register's INSERT
    caught,  \* per request: whether a catch block caught a store failure
    resp     \* per request: the response sent

vars == <<users, pc, req, user, insertId, caught, resp>>

Req(route, header, body) == [route |-> route, header |-> header, body |-> body]
NoReq == Req("none", NoHeader, Fn({}))

\* A row as the seed data or an INSERT of register writes it.  The table
\* has no constraint beyond its auto-increment id: the code creates no
\* schema and guards the e-mail with its own SELECT.
NewRow(id, body, hashed, companyId, active, enable) ==
    [id |-> id,
     first_name |-> body.first_name,
     last_name |-> body.last_name,
     email |-> body.email,
     password |-> hashed,
     type |-> body.type,
     company_id |-> companyId,
     subscription |-> "Basic",
     lang |-> IF "lang" \in DOMAIN body THEN body.lang ELSE "en",
     plan |-> 0,
     avatar |-> IF "avatar" \in DOMAIN body THEN body.avatar ELSE "",
     created_by |-> 0,
     is_active |-> active,
     is_login_enable |-> enable,
     dark_mode |-> 0,
     messenger_color |-> "#2180f3",
     is_disable |-> 1,
     last_login |-> "NULL",
     created_at |-> "t_ins",
     updated_at |-> "t_ins"]

\* The table the server is started on: empty, or holding one account whose
\* is_active and is_login_enable flags are whatever its administrator set.
SeedTables ==
    {<<>>}
    \cup {<<NewRow(1, RegisterBody(E1, P1, "employee", "Ann"), Hash(P1), "NULL", a, l)>> :
            a \in {0, 1}, l \in {0, 1}}

Init ==
    /\ users \in SeedTables
    /\ pc = [p \in Procs |-> "idle"]
    /\ req = [p \in Procs |-> NoReq]
    /\ user = [p \in Procs |-> <<>>]
    /\ insertId = [p \in Procs |-> 0]
    /\ caught = [p \in Procs |-> FALSE]
    /\ resp = [p \in Procs |-> NoResp]

\* A statement of the pool either executes or throws.
StoreOutcomes == {"ok", "error"}

\* The handler sends its response and returns.
Reply(p, r) ==
    /\ pc' = [pc EXCEPT ![p] = "done"]
    /\ resp' = [resp EXCEPT ![p] = r]

\* The handler parks on its next await.
Await(p, label) ==
    /\ pc' = [pc EXCEPT ![p] = label]
    /\ resp' = resp

InternalError == Resp(500, "Internal server error", <<>>)

\* catch (error) { res.status(500)... } of the route handlers.
Catch500(p) ==
    /\ caught' = [caught EXCEPT ![p] = TRUE]
    /\ Reply(p, InternalError)

ValidationErrors == Resp(400, "Validation errors", <<>>)

\* ------------------------------------------------------ POST /api/register

RegisterValid(body) ==
    /\ body.first_name # ""
    /\ body.last_name # ""
    /\ IsEmail(body.email)
    /\ Len(body.password) >= MinPasswordLength
    /\ body.type \in {"company", "employee", "admin"}

\* Validation, then SELECT id FROM users WHERE email = ?
RegisterCheck(p, body, store) ==
    /\ pc[p] = "idle"
    /\ req' = [req EXCEPT ![p] = Req("register", NoHeader, body)]
    /\ UNCHANGED <<users, user, insertId>>
    /\ IF ~RegisterValid(body)
         THEN Reply(p, ValidationErrors) /\ UNCHANGED caught
       ELSE IF store = "error"
         THEN Catch500(p)
       ELSE IF Len(SelectByEmail(users, body.email)) > 0
         THEN Reply(p, Resp(400, "Email already registered", <<>>)) /\ UNCHANGED caught
       ELSE Await(p, "reg_hash") /\ UNCHANGED caught

\* await bcrypt.hash(password, saltRounds)
RegisterHash(p) ==
    /\ pc[p] = "reg_hash"
    /\ Await(p, "reg_insert")
    /\ UNCHANGED <<users, req, user, insertId, caught>>

\* generateCompanyId for a company, then INSERT INTO users ...
RegisterInsert(p, cid, store) ==
    /\ pc[p] = "reg_insert"
    /\ UNCHANGED <<req, user>>
    /\ IF store = "error"
         THEN Catch500(p) /\ UNCHANGED <<users, insertId>>
       ELSE LET companyId == IF req[p].body.type = "company" THEN cid ELSE "NULL"
                row == NewRow(Len(users) + 1, req[p].body,
                              Hash(req[p].body.password), companyId, 1, 1)
            IN  /\ users' = Append(users, row)
                /\ insertId' = [insertId EXCEPT ![p] = row.id]
                /\ Await(p, "reg_reload")
                /\ UNCHANGED caught

\* SELECT * FROM users WHERE id = insertId, then the 201 response.
RegisterReload(p, store) ==
    /\ pc[p] = "reg_reload"
    /\ UNCHANGED <<users, req, user, insertId>>
    /\ IF store = "error"
         THEN Catch500(p)
       ELSE LET newUser == SelectById(users, insertId[p])
            IN  /\ Reply(p, Resp(201, "User registered successfully", WithUser(newUser[1])))
                /\ UNCHANGED caught

\* --------------------------------------------------------- POST /api/login

LoginValid(body) ==
    /\ IsEmail(body.email)
    /\ body.password # Empty

LoginNoUser == Resp(401, "Invalid email or password", <<>>)
LoginBadPasswordLeaky == Resp(401, "Invalid password", <<>>)
LoginBadPassword == Resp(401, "Invalid email or password", <<>>)
LoginNotActive == Resp(403, "Account is not active", <<>>)
LoginDisabled == Resp(403, "Login is disabled for this account", <<>>)

\* Validation, SELECT * FROM users WHERE email = ?, then the flag checks.
LoginLookup(p, body, store) ==
    /\ pc[p] = "idle"
    /\ req' = [req EXCEPT ![p] = Req("login", NoHeader, body)]
    /\ UNCHANGED <<users, insertId>>
    /\ IF ~LoginValid(body)
         THEN Reply(p, ValidationErrors) /\ UNCHANGED <<user, caught>>
       ELSE IF store = "error"
         THEN Catch500(p) /\ UNCHANGED user
       ELSE LET found == SelectByEmail(users, body.email)
            IN  IF Len(found) = 0
                  THEN Reply(p, LoginNoUser) /\ UNCHANGED <<user, caught>>
                ELSE /\ user' = [user EXCEPT ![p] = <<found[1]>>]
                     /\ UNCHANGED caught
                     /\ IF found[1].is_active = 0 THEN Reply(p, LoginNotActive)
                        ELSE IF found[1].is_login_enable = 0 THEN Reply(p, LoginDisabled)
                        ELSE Await(p, "login_compare")

\* await bcrypt.compare(password, user.password)
LoginCompare(p) ==
    /\ pc[p] = "login_compare"
    /\ UNCHANGED <<users, req, user, insertId, caught>>
    /\ IF ~Compare(req[p].body.password, user[p][1].password)
         THEN Reply(p, LoginBadPassword)
       ELSE Await(p, "login_update")

\* UPDATE users SET last_login = NOW() WHERE id = ?
SetLastLogin(table, id) ==
    [i \in 1..Len(table) |->
        IF table[i].id = id THEN [table[i] EXCEPT !.last_login = "t_login"]
        ELSE table[i]]

\* The UPDATE of last_login, then the 200 response built from the row loaded
\* at the start of the handler.
LoginUpdate(p, store) ==
    /\ pc[p] = "login_update"
    /\ UNCHANGED <<req, user, insertId>>
    /\ IF store = "error"
         THEN Catch500(p) /\ UNCHANGED users
       ELSE /\ users' = SetLastLogin(users, user[p][1].id)
            /\ Reply(p, Resp(200, "Login successful", WithUser(user[p][1])))
            /\ UNCHANGED caught

\* -------------------------------------------------------- authenticateUser

GateNoBasic == Resp(401, "Basic authentication required", <<>>)
GateMissing == Resp(401, "Email and password required", <<>>)
GateInvalid == Resp(401, "Invalid credentials", <<>>)
GateDisabled == Resp(403, "Login is disabled for this account", <<>>)
GateFailed == Resp(403, "Authentication failed", <<>>)

GateResponses == {GateNoBasic, GateMissing, GateInvalid, GateDisabled, GateFailed}

\* SELECT * FROM users WHERE email = ? AND is_active = 1
SelectActiveByEmail(table, email) ==
    SelectSeq(table, LAMBDA r : r.email = email /\ r.is_active = 1)

\* The header checks, the decoding of the credentials, the SELECT of the
\* active user and the is_login_enable check.
GateLookup(p, route, header, body, store) ==
    /\ pc[p] = "idle"
    /\ req' = [req EXCEPT ![p] = Req(route, header, body)]
    /\ UNCHANGED <<users, insertId>>
    /\ IF header = NoHeader \/ header[1].scheme # "Basic"
         THEN Reply(p, GateNoBasic) /\ UNCHANGED <<user, caught>>
       ELSE LET cred == DecodeCredentials(header[1].credentials)
            IN  IF cred.email = Empty \/ cred.password = Empty
                  THEN Reply(p, GateMissing) /\ UNCHANGED <<user, caught>>
                ELSE IF store = "error"
                  THEN /\ caught' = [caught EXCEPT ![p] = TRUE]
                       /\ Reply(p, GateFailed)
                       /\ UNCHANGED user
                ELSE LET found == SelectActiveByEmail(users, cred.email)
                     IN  IF Len(found) = 0
                           THEN Reply(p, GateInvalid) /\ UNCHANGED <<user, caught>>
                         ELSE /\ user' = [user EXCEPT ![p] = <<found[1]>>]
                              /\ UNCHANGED caught
                              /\ IF found[1].is_login_enable = 0
                                   THEN Reply(p, GateDisabled)
                                 ELSE Await(p, "gate_compare")

\* ------------------------------------------------------- PUT /api/profile

UpdateValid(body) ==
    /\ "first_name" \in DOMAIN body => body.first_name # ""
    /\ "last_name" \in DOMAIN body => body.last_name # ""
    /\ "subscription" \in DOMAIN body => body.subscription \in Subscriptions

\* Object.keys(req.body) without 'password': the columns of the SET clause
\* that take a body value.
UpdateKeys(body) == (DOMAIN body) \ {"password"}

\* The SET clause: every body key, plan from planMap when subscription is
\* given, and updated_at = NOW().
UpdateSets(body) ==
    [c \in UpdateKeys(body)
           \cup (IF "subscription" \in DOMAIN body THEN {"plan"} ELSE {})
           \cup {"updated_at"} |->
        IF c = "updated_at" THEN "t_upd"
        ELSE IF c = "plan" /\ "subscription" \in DOMAIN body
          THEN planMap[body.subscription]
        ELSE body[c]]

\* Whether the server accepts the statement: every SET column exists, and
\* the values bound are as many as the placeholders.  A body with both plan
\* and subscription pushes two values for the one `plan = ?`; the prepared
\* statement is then executed with one argument too many, which is taken
\* here as an error of the statement.
UpdateAccepted(body) ==
    /\ UpdateKeys(body) \subseteq Columns
    /\ ~("plan" \in DOMAIN body /\ "subscription" \in DOMAIN body)

\* UPDATE users SET ... WHERE id = ?
ApplyUpdate(table, id, sets) ==
    [i \in 1..Len(table) |->
        IF table[i].id = id
          THEN [c \in Columns |-> IF c \in DOMAIN sets THEN sets[c] ELSE table[i][c]]
        ELSE table[i]]

\* After the gate and the validators: the handler builds the statement and
\* parks on its execution.
UpdateBuild(p) ==
    IF ~UpdateValid(req[p].body) THEN Reply(p, ValidationErrors)
    ELSE IF UpdateKeys(req[p].body) = {}
      THEN Reply(p, Resp(400, "No valid fields to update", <<>>))
    ELSE Await(p, "upd_exec")

\* await pool.execute(query, values)
UpdateExec(p, store) ==
    /\ pc[p] = "upd_exec"
    /\ UNCHANGED <<req, user, insertId>>
    /\ IF store = "error" \/ ~UpdateAccepted(req[p].body)
         THEN Catch500(p) /\ UNCHANGED users
       ELSE /\ users' = ApplyUpdate(users, user[p][1].id, UpdateSets(req[p].body))
            /\ Await(p, "upd_reload")
            /\ UNCHANGED caught

\* SELECT * FROM users WHERE id = ?, then the 200 response.
UpdateReload(p, store) ==
    /\ pc[p] = "upd_reload"
    /\ UNCHANGED <<users, req, user, insertId>>
    /\ IF store = "error"
         THEN Catch500(p)
       ELSE LET updatedUser == SelectById(users, user[p][1].id)
            IN  /\ Reply(p, Resp(200, "Profile updated successfully", WithUser(updatedUser[1])))
                /\ UNCHANGED caught

\* ------------------------------------- GET /api/profile, POST /api/logout

ProfileResponse(row) == Resp(200, "Profile retrieved successfully", WithUser(row))
LogoutResponse == Resp(200, "Logged out successfully", <<>>)

\* await bcrypt.compare(password, user.password) of the gate; on success
\* next() runs the route's handler up to its first await.
GateCompare(p) ==
    /\ pc[p] = "gate_compare"
    /\ UNCHANGED <<users, req, user, insertId, caught>>
    /\ LET cred == DecodeCredentials(req[p].header[1].credentials)
       IN  IF ~Compare(cred.password, user[p][1].password)
             THEN Reply(p, GateInvalid)
           ELSE IF req[p].route = "profile" THEN Reply(p, ProfileResponse(user[p][1]))
           ELSE IF req[p].route = "logout" THEN Reply(p, LogoutResponse)
           ELSE UpdateBuild(p)

NoBody == Fn({})

Next ==
    \E p \in Procs :
        \/ \E body \in RegisterBodies, store \in StoreOutcomes : RegisterCheck(p, body, store)
        \/ RegisterHash(p)
        \/ \E cid \in CompanyIds, store \in StoreOutcomes : RegisterInsert(p, cid, store)
        \/ \E store \in StoreOutcomes : RegisterReload(p, store)
        \/ \E body \in LoginBodies, store \in StoreOutcomes : LoginLookup(p, body, store)
        \/ LoginCompare(p)
        \/ \E store \in StoreOutcomes : LoginUpdate(p, store)
        \/ \E route \in {"profile", "logout"}, header \in Headers, store \in StoreOutcomes :
              GateLookup(p, route, header, NoBody, store)
        \/ \E header \in BasicHeaders, body \in UpdateBodies, store \in StoreOutcomes :
              GateLookup(p, "update", header, body, store)
        \/ GateCompare(p)
        \/ \E store \in StoreOutcomes : UpdateExec(p, store)
        \/ \E store \in StoreOutcomes : UpdateReload(p, store)

Spec == Init /\ [][Next]_vars

\* One login and one profile update race on the account of RaceSeed.
RaceSeed == <<NewRow(1, RegisterBody(E1, P1, "employee", "Ann"), Hash(P1), "NULL", 1, 1)>>

InitRace ==
    /\ Init
    /\ users = RaceSeed

SpecRace == InitRace /\ [][Next]_vars

\* The login handler run without interruption on `table`: the table it leaves.
LoginAlone(table, body) ==
    LET found == SelectByEmail(table, body.email)
    IN  IF /\ LoginValid(body)
           /\ Len(found) > 0
           /\ found[1].is_active # 0
           /\ found[1].is_login_enable # 0
           /\ Compare(body.password, found[1].password)
          THEN SetLastLogin(table, found[1].id)
        ELSE table

\* The gate and the update handler run without interruption on `table`.
UpdateAlone(table, header, body) ==
    LET cred == DecodeCredentials(header[1].credentials)
        found == SelectActiveByEmail(table, cred.email)
    IN  IF /\ header # NoHeader
           /\ header[1].scheme = "Basic"
           /\ cred.email # Empty
           /\ cred.password # Empty
           /\ Len(found) > 0
           /\ found[1].is_login_enable # 0
           /\ Compare(cred.password, found[1].password)
           /\ UpdateValid(body)
           /\ UpdateKeys(body) # {}
           /\ UpdateAccepted(body)
          THEN ApplyUpdate(table, found[1].id, UpdateSets(body))
        ELSE table

\* ------------------------------------------------------------------ claims

Done(p) == pc[p] = "done"
AuthRoutes == GateRoutes \cup {"login"}
StoredRows(table, id) == {table[i] : i \in {j \in 1..Len(table) : table[j].id = id}}

\* The request reached the user lookup of the login handler or of the gate.
WellFormed(r) ==
    IF r.route = "login" THEN LoginValid(r.body)
    ELSE /\ r.route \in GateRoutes
         /\ r.header # NoHeader
         /\ r.header[1].scheme = "Basic"
         /\ DecodeCredentials(r.header[1].credentials).email # Empty
         /\ DecodeCredentials(r.header[1].credentials).password # Empty

\* The e-mail the request names.
NamedEmail(r) ==
    IF r.route = "login" THEN r.body.email
    ELSE DecodeCredentials(r.header[1].credentials).email

\* C1: login and the gate-protected routes never answer with success for a
\* user whose stored is_active or is_login_enable is false at the time of the
\* response, and an active user whose login is disabled is answered 403 by
\* the login endpoint and by the gate.
C1_BlockedUserNeverSucceeds ==
    [][\A p \in Procs :
        /\ (/\ pc[p] # "done"
            /\ pc'[p] = "done"
            /\ req'[p].route \in AuthRoutes
            /\ resp'[p].status = 200)
           => \A r \in StoredRows(users', user'[p][1].id) :
                 r.is_active = 1 /\ r.is_login_enable = 1
        /\ (/\ pc[p] = "idle"
            /\ pc'[p] # "idle"
            /\ req'[p].route \in AuthRoutes
            /\ WellFormed(req'[p])
            /\ ~caught'[p]
            /\ \E i \in 1..Len(users) :
                  /\ users[i].email = NamedEmail(req'[p])
                  /\ users[i].is_active = 1
                  /\ users[i].is_login_enable = 0)
           => pc'[p] = "done" /\ resp'[p].status = 403]_vars

\* C2: a response that carries a user object has no password key in it.
C2_NoPasswordInResponses ==
    \A p \in Procs :
        resp[p].data # <<>> => "password" \notin DOMAIN resp[p].data[1]

C2_Witness ==
    \E p \in Procs :
        /\ Done(p)
        /\ req[p].route = "update"
        /\ "password" \in DOMAIN req[p].body
        /\ resp[p].status = 200
        /\ resp[p].data # <<>>

\* C3: no two stored users have the same email.
C3_EmailUnique ==
    \A i, j \in 1..Len(users) : i # j => users[i].email # users[j].email

\* C4: every stored user's plan is the planMap image of its subscription.
C4_PlanMatchesSubscription ==
    \A i \in 1..Len(users) :
        /\ users[i].subscription \in Subscriptions
        /\ users[i].plan = planMap[users[i].subscription]

\* C5: company_id is non-null exactly for the users of type company.
C5_CompanyIdIffCompany ==
    \A i \in 1..Len(users) :
        (users[i].company_id # "NULL") <=> (users[i].type = "company")

\* The lookup of the request found no row for the e-mail it names.
FoundNoUser(p) ==
    /\ Done(p)
    /\ req[p].route \in AuthRoutes
    /\ WellFormed(req[p])
    /\ ~caught[p]
    /\ user[p] = <<>>

\* The lookup found the row of a registered user and the request's password
\* is not that user's.
WrongPassword(p) ==
    /\ Done(p)
    /\ req[p].route \in AuthRoutes
    /\ WellFormed(req[p])
    /\ ~caught[p]
    /\ user[p] # <<>>
    /\ ~Compare(IF req[p].route = "login" THEN req[p].body.password
                ELSE DecodeCredentials(req[p].header[1].credentials).password,
                user[p][1].password)

SameEndpoint(p, q) == (req[p].route = "login") <=> (req[q].route = "login")

\* C6 as stated: for every stored user, the response to an e-mail that is
\* not registered equals the response to a registered e-mail with a wrong
\* password.
C6_Original ==
    \A p, q \in Procs :
        (FoundNoUser(p) /\ WrongPassword(q) /\ SameEndpoint(p, q))
            => resp[p] = resp[q]

\* C6, amended: the two responses are equal for every stored user that is
\* active and login-enabled.
C6_Indistinguishable ==
    \A p, q \in Procs :
        (/\ FoundNoUser(p)
         /\ WrongPassword(q)
         /\ SameEndpoint(p, q)
         /\ user[q][1].is_active = 1
         /\ user[q][1].is_login_enable = 1)
            => resp[p] = resp[q]

C6_Witness ==
    \E p, q \in Procs :
        /\ FoundNoUser(p)
        /\ WrongPassword(q)
        /\ req[p].route = "login"
        /\ req[q].route = "login"
        /\ user[q][1].is_active = 1
        /\ user[q][1].is_login_enable = 1
        /\ resp[q].status = 401

AllowList ==
    {"first_name", "last_name", "subscription", "lang", "avatar", "dark_mode",
     "messenger_color"}

\* C7: the UPDATE of update-profile changes, in the authenticated user's row
\* only, allow-listed columns, plan and updated_at.
C7_UpdateFrame ==
    [][\A p \in Procs :
        (pc[p] = "upd_exec" /\ pc'[p] = "upd_reload")
            => /\ Len(users') = Len(users)
               /\ \A i \in 1..Len(users) :
                     /\ \A c \in Columns \ (AllowList \cup {"plan", "updated_at"}) :
                           users'[i][c] = users[i][c]
                     /\ users[i].id # user[p][1].id => users'[i] = users[i]]_vars

\* C8: an active, login-enabled user who sends the registered email and
\* the registered password, colons included, passes the gate.
C8_ColonPasswordAuthenticates ==
    \A p \in Procs :
        (/\ Done(p)
         /\ req[p].route \in GateRoutes
         /\ user[p] # <<>>
         /\ user[p][1].is_login_enable = 1
         /\ ~caught[p]
         /\ \E pw \in Passwords :
               /\ req[p].header = Basic(user[p][1].email \o <<":">> \o pw)
               /\ Compare(pw, user[p][1].password))
            => resp[p] \notin GateResponses

\* C9: a request during which a store operation failed ends with 500.
C9_StoreFailureIs500 ==
    \A p \in Procs : (Done(p) /\ caught[p]) => resp[p].status = 500

\* The tables two sequential runs of the login and the update can leave,
\* in either order, each request writing or stopped by a store failure.
SequentialOutcomes(table, login, update) ==
    LET L(t) == LoginAlone(t, login.body)
        U(t) == UpdateAlone(t, update.header, update.body)
    IN  {table, L(table), U(table), U(L(table)), L(U(table))}

\* C10: one login and one update-profile of the same user, interleaved in
\* any way, leave the row that one of their sequential runs leaves.
C10_RaceIsSerializable ==
    \A p, q \in Procs :
        (/\ Done(p)
         /\ Done(q)
         /\ req[p].route = "login"
         /\ req[q].route = "update"
         /\ WellFormed(req[p])
         /\ WellFormed(req[q])
         /\ NamedEmail(req[p]) = NamedEmail(req[q]))
            => users \in SequentialOutcomes(RaceSeed, req[p], req[q])

====
